---- MODULE Spec2Model ----
(***************************************************************************)
(* Model of the depth readers of se_apps/include/interface.h:              *)
(* DepthReader (frame pacer, ground-truth pose parser), RawDepthReader     *)
(* (binary container reader) and SceneDepthReader.                         *)
(*                                                                         *)
(* The data file is a sequence of bytes and fread/fseeko act on a byte     *)
(* cursor.  The ground-truth file is a sequence of lines, each a sequence  *)
(* of characters; std::getline acts on a line cursor with the stream's     *)
(* eofbit and failbit.  The clock is counted in ticks, TicksPerSec ticks   *)
(* to the second; two readings of CLOCK_MONOTONIC taken in two read calls  *)
(* differ, the file access of a read taking one tick.  size_t values are   *)
(* written as the integer congruent to them modulo 2^64 that is nearest to *)
(* zero, so (size_t) -1 is -1 and incrementing it gives 0.                 *)
(***************************************************************************)
EXTENDS Integers, Sequences, FiniteSets, TLC

\* ------------------------------------------------------------------ bounds
MaxRecords == 2      \* complete records in the largest data file
MaxReads == 3        \* logged read calls between two restarts
MaxTime == 3         \* the clock reading up to which calls are followed
TicksPerFrame == 2   \* clock ticks in one frame period of a paced reader
FpsPaced == 2        \* the positive frame rate of the paced configurations
Width == 2           \* header resolution of the data files
Height == 1

\* ------------------------------------------------- sizes of the C++ types
SizeofUInt == 4
SizeofUShort == 2
SizeofUchar3 == 3

\* clock ticks in one second: the frame period 1/fps is a whole number of ticks
TicksPerSec == TicksPerFrame * FpsPaced

Min(a, b) == IF a < b THEN a ELSE b

\* std::ceil(num / den) for den > 0
CeilDiv(num, den) == IF num >= 0 THEN (num + den - 1) \div den ELSE -((-num) \div den)

\* --------------------------------------------------------- the data file
\* little-endian bytes of an unsigned int
U32Bytes(x) == << x % 256, (x \div 256) % 256, (x \div 65536) % 256, (x \div 16777216) % 256 >>

\* the unsigned int stored in bytes b[i+1..i+4]
U32At(b, i) == b[i + 1] + 256 * b[i + 2] + 65536 * b[i + 3] + 16777216 * b[i + 4]

DimPair(w, h) == U32Bytes(w) \o U32Bytes(h)

\* payload bytes of record i: every byte of the file is different from the
\* byte at the same place of any other record
DepthPayload(i, n) == [ j \in 1..(n * SizeofUShort) |-> 10 + 20 * i + j ]

RgbPayload(i, n) == [ j \in 1..(n * SizeofUchar3) |-> 100 + 20 * i + j ]

FrameRecord(i, w, h) ==
  DimPair(w, h) \o DepthPayload(i, w * h) \o DimPair(w, h) \o RgbPayload(i, w * h)

RECURSIVE FullFile(_, _, _)
FullFile(k, w, h) == IF k = 0 THEN << >> ELSE FullFile(k - 1, w, h) \o FrameRecord(k - 1, w, h)

\* ------------------------------------------------- the ground-truth file
Sp == " "

\* "a b c ..." from the one-character tokens toks
RECURSIVE JoinTokens(_)
JoinTokens(toks) ==
  IF Len(toks) = 0 THEN << >>
  ELSE IF Len(toks) = 1 THEN << toks[1] >>
  ELSE << toks[1], Sp >> \o JoinTokens(Tail(toks))

RecLine(id) == JoinTokens(<< id, "2", "3", "0", "0", "0", "1" >>)

StampedLine(id) == JoinTokens(<< "9", id, "2", "3", "0", "0", "0", "1" >>)

ShortLine == JoinTokens(<< "1", "2", "3", "4", "5" >>)

CommentLine == JoinTokens(<< "#", "c" >>)

BadNumberLine == JoinTokens(<< "1", "x", "3", "0", "0", "0", "1" >>)

EmptyLine == << >>

\* ---------------------------------------------------------------- stdio
\* fread(ptr, size, count, fp) at byte offset pos of a file holding bytes:
\* n complete elements are transferred, a trailing partial element moves the
\* cursor to the end of the file, and data holds every byte that was copied.
Fread(bytes, pos, size, count) ==
  LET avail == IF pos < Len(bytes) THEN Len(bytes) - pos ELSE 0
      n == Min(count, avail \div size)
      moved == IF n = count THEN count * size ELSE avail
  IN [n |-> n, pos |-> pos + moved, data |-> SubSeq(bytes, pos + 1, pos + moved)]

\* a reader that scans on from its cursor instead of seeking to the record
FseekSetSkipped(pos, off) == pos

\* fseeko(fp, off, SEEK_SET): a negative offset fails and leaves the cursor
FseekSet(pos, off) == IF off < 0 THEN pos ELSE off

\* fseeko(fp, off, SEEK_CUR): seeking past the end of the file is allowed
FseekCur(pos, off) == IF pos + off < 0 THEN pos ELSE pos + off

\* the bytes of an object after fread copied the bytes data over its start
Overlay(old, data) == [ i \in 1..Len(old) |-> IF i <= Len(data) THEN data[i] ELSE old[i] ]

\* ------------------------------------------------------------ the pacer
\* a pacer whose unpaced branch lacks its return and falls into the paced
\* computation: ceil(elapsed * 0) is 0 and the time to wait is not positive
get_next_frame_no_return(fps, blocking_read, frame, clock, first) ==
  IF fps = 0
  THEN [frame |-> 0, first |-> [init |-> TRUE, t |-> IF first.init THEN first.t ELSE clock],
        clock |-> clock, slept |-> 0]
  ELSE LET ff == IF first.init THEN first ELSE [init |-> TRUE, t |-> clock]
           elapsed == clock - ff.t
           fr == CeilDiv(elapsed * fps, TicksPerSec)
           ttw == (fr * TicksPerSec - elapsed * fps) \div fps
           sleeps == blocking_read /\ ttw > 0
       IN [frame |-> fr, first |-> ff,
           clock |-> IF sleeps THEN clock + ttw ELSE clock,
           slept |-> IF sleeps THEN ttw ELSE 0]

\* a pacer that subtracts the clock from the epoch
get_next_frame_swapped(fps, blocking_read, frame, clock, first) ==
  IF fps = 0
  THEN [frame |-> frame + 1, first |-> first, clock |-> clock, slept |-> 0]
  ELSE LET ff == IF first.init THEN first ELSE [init |-> TRUE, t |-> clock]
           elapsed == ff.t - clock
           fr == CeilDiv(elapsed * fps, TicksPerSec)
           ttw == (fr * TicksPerSec - elapsed * fps) \div fps
           sleeps == blocking_read /\ ttw > 0
       IN [frame |-> fr, first |-> ff,
           clock |-> IF sleeps THEN clock + ttw ELSE clock,
           slept |-> IF sleeps THEN ttw ELSE 0]

\* a pacer that waits for the due time of the frame after the ideal one
get_next_frame_next_due(fps, blocking_read, frame, clock, first) ==
  IF fps = 0
  THEN [frame |-> frame + 1, first |-> first, clock |-> clock, slept |-> 0]
  ELSE LET ff == IF first.init THEN first ELSE [init |-> TRUE, t |-> clock]
           elapsed == clock - ff.t
           fr == CeilDiv(elapsed * fps, TicksPerSec)
           ttw == ((fr + 1) * TicksPerSec - elapsed * fps) \div fps
           sleeps == blocking_read /\ ttw > 0
       IN [frame |-> fr, first |-> ff,
           clock |-> IF sleeps THEN clock + ttw ELSE clock,
           slept |-> IF sleeps THEN ttw ELSE 0]

\* a pacer that rounds the ideal frame index down
get_next_frame_floor(fps, blocking_read, frame, clock, first) ==
  IF fps = 0
  THEN [frame |-> frame + 1, first |-> first, clock |-> clock, slept |-> 0]
  ELSE LET ff == IF first.init THEN first ELSE [init |-> TRUE, t |-> clock]
           elapsed == clock - ff.t
           fr == (elapsed * fps) \div TicksPerSec
           ttw == (fr * TicksPerSec - elapsed * fps) \div fps
           sleeps == blocking_read /\ ttw > 0
       IN [frame |-> fr, first |-> ff,
           clock |-> IF sleeps THEN clock + ttw ELSE clock,
           slept |-> IF sleeps THEN ttw ELSE 0]

\* a pacer that computes the time to wait and never sleeps
get_next_frame_no_sleep(fps, blocking_read, frame, clock, first) ==
  IF fps = 0
  THEN [frame |-> frame + 1, first |-> first, clock |-> clock, slept |-> 0]
  ELSE LET ff == IF first.init THEN first ELSE [init |-> TRUE, t |-> clock]
           elapsed == clock - ff.t
           fr == CeilDiv(elapsed * fps, TicksPerSec)
       IN [frame |-> fr, first |-> ff, clock |-> clock, slept |-> 0]

\* DepthReader::get_next_frame.  first is the function-local static
\* first_frame, [init, t]; the result holds the new frame index, the static,
\* the clock after the sleep and the ticks slept.
get_next_frame(fps, blocking_read, frame, clock, first) ==
  IF fps = 0
  THEN [frame |-> frame + 1, first |-> first, clock |-> clock, slept |-> 0]
  ELSE LET ff == IF first.init THEN first ELSE [init |-> TRUE, t |-> clock]
           elapsed == clock - ff.t
           fr == CeilDiv(elapsed * fps, TicksPerSec)
           ttw == (fr * TicksPerSec - elapsed * fps) \div fps
           sleeps == blocking_read /\ ttw > 0
       IN [frame |-> fr, first |-> ff,
           clock |-> IF sleeps THEN clock + ttw ELSE clock,
           slept |-> IF sleeps THEN ttw ELSE 0]

\* ------------------------------------------------ the container reader
\* off_t size_of_frame of RawDepthReader::readNextDepthFrame (full mode)
size_of_frame(inSize) ==
  SizeofUInt * 4 + inSize[1] * inSize[2] * SizeofUShort + inSize[1] * inSize[2] * SizeofUchar3

\* newImageSize[0] * newImageSize[1]
ImageSize(nis) == U32At(nis, 0) * U32At(nis, 4)

\* The body of RawDepthReader::readNextDepthFrame after get_next_frame():
\* bytes is the file, pos0 its cursor, raw_rgb and depthMap tell whether the
\* pointers are non-null, uninit is what the local newImageSize holds before
\* the first fread.  report is the line written to std::cout, transferred
\* counts the elements the four fread calls returned.
RawReadRecord(bytes, inSize, frame, pos0, raw_rgb, depthMap, uninit) ==
  LET pos1 == FseekSet(pos0, size_of_frame(inSize) * frame)
      r1 == Fread(bytes, pos1, 2 * SizeofUInt, 1)
      nis1 == Overlay(uninit, r1.data)
      n1 == ImageSize(nis1)
      r2 == Fread(bytes, r1.pos, SizeofUShort, n1)
      total2 == r1.n + (IF depthMap THEN r2.n ELSE n1)
      pos2 == IF depthMap THEN r2.pos ELSE FseekCur(r1.pos, n1 * SizeofUShort)
      r3 == Fread(bytes, pos2, 2 * SizeofUInt, 1)
      nis2 == Overlay(nis1, r3.data)
      n2 == ImageSize(nis2)
      r4 == Fread(bytes, r3.pos, SizeofUchar3, n2)
      total == total2 + r3.n + (IF raw_rgb THEN r4.n ELSE n2)
      pos4 == IF raw_rgb THEN r4.pos ELSE FseekCur(r3.pos, n2 * SizeofUchar3)
      expected_size == (1 + n1) + (1 + n2)
  IN [res |-> total = expected_size,
      report |-> IF total = expected_size THEN "none"
                 ELSE IF total = 0 THEN "End of file." ELSE "End of file(garbage found).",
      transferred |-> r1.n + (IF depthMap THEN r2.n ELSE 0) + r3.n
                        + (IF raw_rgb THEN r4.n ELSE 0),
      pos |-> pos4,
      total |-> total,
      seek |-> pos1,
      depth |-> IF depthMap THEN SubSeq(r2.data, 1, r2.n * SizeofUShort) ELSE << >>,
      rgb |-> IF raw_rgb THEN SubSeq(r4.data, 1, r4.n * SizeofUchar3) ELSE << >>]

\* ------------------------------------------------------ the pose parser
\* std::getline(_gt_file, line) on the stream st = [open, pos, eofbit,
\* failbit] over the file gt = [exists, lines, terminated]: pos counts the
\* lines already consumed.
Good(st) == ~st.eofbit /\ ~st.failbit

Getline(gt, st) ==
  IF ~Good(st)
  THEN [st |-> [st EXCEPT !.failbit = TRUE], line |-> << >>]
  ELSE IF ~st.open \/ st.pos >= Len(gt.lines)
  THEN [st |-> [st EXCEPT !.eofbit = TRUE, !.failbit = TRUE], line |-> << >>]
  ELSE [st |-> [st EXCEPT !.pos = st.pos + 1,
                          !.eofbit = (st.pos + 1 = Len(gt.lines) /\ ~gt.terminated)],
        line |-> gt.lines[st.pos + 1]]

\* _gt_file.seekg(0, _gt_file.beg): eofbit is cleared, and the cursor moves
\* only when the stream has not failed
Seekg0(st) ==
  IF st.failbit THEN [st EXCEPT !.eofbit = FALSE]
  ELSE [st EXCEPT !.eofbit = FALSE, !.pos = 0]

\* index of the first delim in s, Len(s) + 1 when there is none
RECURSIVE FindChar(_, _, _)
FindChar(s, delim, i) ==
  IF i > Len(s) THEN i ELSE IF s[i] = delim THEN i ELSE FindChar(s, delim, i + 1)

\* splitString(line, ' ') of str_utils.h: the items between delimiters
RECURSIVE splitString(_, _)
splitString(s, delim) ==
  IF Len(s) = 0 THEN << >>
  ELSE LET i == FindChar(s, delim, 1)
       IN << SubSeq(s, 1, i - 1) >> \o splitString(SubSeq(s, i + 1, Len(s)), delim)

Digits == { "0", "1", "2", "3", "4", "5", "6", "7", "8", "9" }

DigitValue(c) ==
  CASE c = "0" -> 0 [] c = "1" -> 1 [] c = "2" -> 2 [] c = "3" -> 3 [] c = "4" -> 4
    [] c = "5" -> 5 [] c = "6" -> 6 [] c = "7" -> 7 [] c = "8" -> 8 [] OTHER -> 9

\* std::stof converts the longest numeric prefix and throws when it is empty
StofThrows(tok) == Len(tok) = 0 \/ tok[1] \notin Digits

RECURSIVE StofPrefix(_, _, _)
StofPrefix(tok, i, acc) ==
  IF i > Len(tok) \/ tok[i] \notin Digits THEN acc
  ELSE StofPrefix(tok, i + 1, 10 * acc + DigitValue(tok[i]))

stof(tok) == StofPrefix(tok, 1, 0)

\* the pose built from the last seven columns: translation, then the
\* quaternion with its scalar part first; the configured transform is a
\* translation by (transform, transform, transform)
PoseOf(cols, transform) ==
  LET n == Len(cols)
  IN [tran |-> << stof(cols[n - 6]) + transform, stof(cols[n - 5]) + transform,
                  stof(cols[n - 4]) + transform >>,
      quat |-> << stof(cols[n]), stof(cols[n - 3]), stof(cols[n - 2]), stof(cols[n - 1]) >>]

NoPose == [tran |-> << >>, quat |-> << >>]

\* DepthReader::readNextPose: res is the value returned, threw tells that a
\* std::stof exception left the function instead, inc is the increment of
\* _pose_num, lines counts the std::getline calls that delivered a line.
RECURSIVE readNextPose(_, _, _, _)
readNextPose(gt, st, transform, got) ==
  LET g == Getline(gt, st)
      line_data == splitString(g.line, Sp)
      num_cols == Len(line_data)
  IN IF ~Good(g.st)
     THEN [res |-> FALSE, threw |-> FALSE, st |-> g.st, inc |-> 0, pose |-> NoPose, lines |-> got]
     ELSE IF Len(g.line) > 0 /\ g.line[1] = "#"
     THEN readNextPose(gt, g.st, transform, got + 1)
     ELSE IF num_cols < 7
     THEN [res |-> FALSE, threw |-> FALSE, st |-> g.st, inc |-> 0, pose |-> NoPose,
           lines |-> got + 1]
     ELSE IF \E k \in 0..6 : StofThrows(line_data[num_cols - k])
     THEN [res |-> FALSE, threw |-> TRUE, st |-> g.st, inc |-> 0, pose |-> NoPose,
           lines |-> got + 1]
     ELSE [res |-> TRUE, threw |-> FALSE, st |-> g.st, inc |-> 1,
           pose |-> PoseOf(line_data, transform), lines |-> got + 1]

\* ------------------------------------------------------------- the state
VARIABLES
  config,         \* the ReaderConfiguration and the reader class constructed
  env,            \* the file system: data file, ground-truth file, scene directory
  cameraOpen, cameraActive,
  _frame, _pose_num, _fps, _blocking_read,
  _rawFilePtr,    \* [null, pos]: the FILE* and its cursor
  _inSize,
  _gt_file,       \* [open, pos, eofbit, failbit]
  clock,          \* CLOCK_MONOTONIC in ticks
  first_frame,    \* the static of get_next_frame: [init, t]
  alive,          \* FALSE once the process was killed by a null FILE*
  ctor,           \* the exit path the constructor took
  last,           \* the last call and what it delivered
  log,            \* [on, restarted, reads, firstRun, burst, start]: the depth
                  \* reads made before the first restart, the number of reads
                  \* made since the caller last spent time and the clock at
                  \* the first of them, kept when on
  handles,        \* the files the reader holds open: "raw", "gt"
  destroyed,      \* the reader's destructor has run
  epoch           \* [init, t]: the time of this reader's own first paced read

readerVars == << cameraOpen, cameraActive, _frame, _pose_num, _fps, _blocking_read,
                 _rawFilePtr, _inSize, _gt_file >>

vars == << config, env, cameraOpen, cameraActive, _frame, _pose_num, _fps,
           _blocking_read, _rawFilePtr, _inSize, _gt_file, clock, first_frame,
           alive, ctor, last, log, handles, destroyed, epoch >>

\* --------------------------------------------------------- environments
NoData == [exists |-> FALSE, bytes |-> << >>]

NoGt == [exists |-> FALSE, lines |-> << >>, terminated |-> TRUE]

NoDir == [exists |-> FALSE, frames |-> 0]

RecordSize == size_of_frame(<< Width, Height >>)

\* the frame index up to which the model follows an unpaced reader
MaxFrame == MaxRecords + 1

\* offsets inside a record at which a data file may end: none of the record,
\* inside and after the depth dimension pair, inside and after the depth
\* payload, inside and after the colour dimension pair, inside the colour
\* payload
TruncOffsets ==
  LET depthEnd == 2 * SizeofUInt + Width * Height * SizeofUShort
  IN { 0, 3, 2 * SizeofUInt, 2 * SizeofUInt + 1, depthEnd, depthEnd + 3,
       depthEnd + 2 * SizeofUInt, depthEnd + 2 * SizeofUInt + 2 }

DataFile(len) ==
  [exists |-> TRUE, bytes |-> SubSeq(FullFile(MaxRecords, Width, Height), 1, len)]

WholeData == DataFile(MaxRecords * RecordSize)

\* a whole record at the header's resolution followed by a whole record one
\* column wider, its own dimension pairs saying so; its colour samples are
\* black, so that a dimension pair read from inside them is 0 x 0
MixedData ==
  LET n == (Width + 1) * Height
  IN [exists |-> TRUE,
      bytes |-> FrameRecord(0, Width, Height)
                  \o DimPair(Width + 1, Height) \o DepthPayload(1, n)
                  \o DimPair(Width + 1, Height) \o [ j \in 1..(n * SizeofUchar3) |-> 0 ]]

DataFiles ==
  { DataFile(k * RecordSize + off) : k \in 0..(MaxRecords - 1), off \in TruncOffsets }
    \cup { WholeData }

GtFiles ==
  { [exists |-> TRUE, lines |-> << RecLine("1"), RecLine("2") >>, terminated |-> TRUE],
    [exists |-> TRUE, lines |-> << RecLine("1"), RecLine("2") >>, terminated |-> FALSE],
    [exists |-> TRUE, lines |-> << CommentLine, StampedLine("1"), CommentLine, RecLine("2") >>,
     terminated |-> TRUE],
    [exists |-> TRUE, lines |-> << RecLine("1"), ShortLine, RecLine("2") >>, terminated |-> TRUE],
    [exists |-> TRUE, lines |-> << RecLine("1"), BadNumberLine, RecLine("2") >>,
     terminated |-> TRUE],
    [exists |-> TRUE, lines |-> << CommentLine, EmptyLine, RecLine("1") >>, terminated |-> TRUE],
    [exists |-> TRUE, lines |-> << >>, terminated |-> TRUE] }

Cfg(type, fps, blocking, gt) ==
  [type |-> type, fps |-> fps, blocking_read |-> blocking, groundtruth |-> gt, transform |-> 1]

\* frame rate and blocking flag of the configurations
Pacings == { << 0, FALSE >>, << FpsPaced, FALSE >>, << FpsPaced, TRUE >> }

\* container files of every length read unpaced, and a whole file and two
\* truncated ones under every pacing, without ground truth
ContainerRuns ==
  { [config |-> Cfg("raw", 0, FALSE, FALSE),
     env |-> [data |-> d, gt |-> NoGt, dir |-> NoDir]] : d \in DataFiles \cup { MixedData } }
  \cup
  { [config |-> Cfg("raw", pc[1], pc[2], FALSE),
     env |-> [data |-> d, gt |-> NoGt, dir |-> NoDir]] :
      pc \in Pacings, d \in { WholeData, DataFile(RecordSize + 9), DataFile(RecordSize - 4) } }

\* ground-truth files of every shape beside a whole and a truncated container
PoseRuns ==
  { [config |-> Cfg("raw", 0, TRUE, TRUE), env |-> [data |-> d, gt |-> g, dir |-> NoDir]] :
      g \in GtFiles, d \in { WholeData, DataFile(RecordSize + 9) } }

\* scene directories, present and missing
SceneRuns ==
  { [config |-> Cfg("scene", pc[1], pc[2], FALSE),
     env |-> [data |-> NoData, gt |-> NoGt, dir |-> [exists |-> x, frames |-> MaxRecords]]] :
      pc \in Pacings, x \in BOOLEAN }

\* configurations whose data file or ground-truth file is missing
MissingRuns ==
  { [config |-> Cfg("raw", 0, FALSE, g), env |-> [data |-> d, gt |-> NoGt, dir |-> NoDir]] :
      g \in BOOLEAN, d \in { NoData, WholeData } }

Scenarios == ContainerRuns \cup PoseRuns \cup SceneRuns \cup MissingRuns

\* the runs whose first reads are logged
LoggedRuns ==
  { [config |-> Cfg("raw", pc[1], pc[2], FALSE),
     env |-> [data |-> d, gt |-> NoGt, dir |-> NoDir]] :
      pc \in Pacings, d \in { WholeData, DataFile(2 * RecordSize - 4), DataFile(RecordSize) } }

\* the runs followed with a second reader in the process and up to the
\* destruction of the reader
ProcessRuns ==
  MissingRuns
  \cup
  { [config |-> Cfg("raw", 0, TRUE, TRUE), env |-> [data |-> WholeData, gt |-> g, dir |-> NoDir]] :
      g \in GtFiles }
  \cup
  { [config |-> Cfg("raw", pc[1], pc[2], FALSE),
     env |-> [data |-> d, gt |-> NoGt, dir |-> NoDir]] :
      pc \in Pacings, d \in { WholeData, DataFile(3) } }

\* what the members that no constructor path initialises may hold
Uninitialised ==
  [frame : { -2, 0 }, fps : { 0, FpsPaced }, blocking_read : BOOLEAN, pose_num : { -1, 0 },
   open : BOOLEAN, active : BOOLEAN,
   inSize : { DimPair(0, 0), DimPair(Width, Height) }, isdir : BOOLEAN]

\* what the local newImageSize of readNextDepthFrame may hold at entry
UninitialisedDims == { DimPair(0, 0), DimPair(1, 3) }

\* --------------------------------------------------------- constructors
ClosedStream == [open |-> FALSE, pos |-> 0, eofbit |-> FALSE, failbit |-> FALSE]

\* RawDepthReader::RawDepthReader(const ReaderConfiguration&)
RawDepthReaderCtor(cfg, e, u) ==
  LET gtOpened == cfg.groundtruth /\ e.gt.exists
      gtStream == IF ~cfg.groundtruth THEN ClosedStream
                  ELSE [open |-> e.gt.exists, pos |-> 0, eofbit |-> FALSE,
                        failbit |-> ~e.gt.exists]
      res == Fread(e.data.bytes, 0, 2 * SizeofUInt, 1)
      hdr == Overlay(u.inSize, res.data)
      base == [cameraOpen |-> u.open, cameraActive |-> u.active, frame |-> u.frame,
               pose_num |-> IF gtOpened THEN -1 ELSE u.pose_num,
               fps |-> u.fps, blocking_read |-> u.blocking_read,
               rawFilePtr |-> [null |-> TRUE, pos |-> 0],
               inSize |-> << U32At(u.inSize, 0), U32At(u.inSize, 4) >>,
               gt_file |-> gtStream, alive |-> TRUE, path |-> "gt_fail",
               handles |-> IF gtOpened THEN { "gt" } ELSE { }]
  IN IF cfg.groundtruth /\ ~e.gt.exists
     THEN base
     ELSE IF ~e.data.exists
     THEN [base EXCEPT !.alive = FALSE, !.path = "null_file"]
     ELSE IF res.n # 1
     THEN [base EXCEPT !.cameraOpen = FALSE, !.cameraActive = FALSE,
                       !.rawFilePtr = [null |-> FALSE, pos |-> res.pos],
                       !.inSize = << U32At(hdr, 0), U32At(hdr, 4) >>,
                       !.path = "hdr_fail", !.handles = @ \cup { "raw" }]
     ELSE [base EXCEPT !.cameraOpen = TRUE, !.cameraActive = TRUE, !.frame = -1,
                       !.fps = cfg.fps, !.blocking_read = cfg.blocking_read,
                       !.rawFilePtr = [null |-> FALSE, pos |-> 0],
                       !.inSize = << U32At(hdr, 0), U32At(hdr, 4) >>,
                       !.path = "ok", !.handles = @ \cup { "raw" }]

\* SceneDepthReader::SceneDepthReader: lstat leaves st unset when the
\* directory is missing, so S_ISDIR(st.st_mode) is then u.isdir
SceneDepthReaderCtor(cfg, e, u) ==
  LET isdir == IF e.dir.exists THEN TRUE ELSE u.isdir
      base == [cameraOpen |-> FALSE, cameraActive |-> FALSE, frame |-> u.frame,
               pose_num |-> u.pose_num, fps |-> u.fps, blocking_read |-> u.blocking_read,
               rawFilePtr |-> [null |-> TRUE, pos |-> 0],
               inSize |-> << 640, 480 >>,
               gt_file |-> ClosedStream, alive |-> TRUE, path |-> "no_dir", handles |-> { }]
  IN IF isdir
     THEN [base EXCEPT !.cameraOpen = TRUE, !.cameraActive = TRUE, !.frame = -1,
                       !.fps = cfg.fps, !.blocking_read = cfg.blocking_read, !.path = "ok"]
     ELSE base

Construct(cfg, e, u) ==
  IF cfg.type = "raw" THEN RawDepthReaderCtor(cfg, e, u) ELSE SceneDepthReaderCtor(cfg, e, u)

NoCall == [op |-> "none", res |-> FALSE, threw |-> FALSE, raw_rgb |-> FALSE, depthMap |-> FALSE,
           depth |-> << >>, rgb |-> << >>, slept |-> 0, calls |-> << >>,
           file |-> -1, pose |-> NoPose, report |-> "none", transferred |-> 0]

\* the state a constructor leaves, for the runs of the set runs
InitOf(runs, logOn) ==
  \E sc \in runs, u \in Uninitialised :
    LET c == Construct(sc.config, sc.env, u)
    IN /\ config = sc.config
       /\ env = sc.env
       /\ cameraOpen = c.cameraOpen
       /\ cameraActive = c.cameraActive
       /\ _frame = c.frame
       /\ _pose_num = c.pose_num
       /\ _fps = c.fps
       /\ _blocking_read = c.blocking_read
       /\ _rawFilePtr = c.rawFilePtr
       /\ _inSize = c.inSize
       /\ _gt_file = c.gt_file
       /\ clock = 0
       /\ first_frame = [init |-> FALSE, t |-> 0]
       /\ alive = c.alive
       /\ ctor = c.path
       /\ last = NoCall
       /\ log = [on |-> logOn, restarted |-> FALSE, reads |-> 0, firstRun |-> << >>,
                 burst |-> 0, start |-> 0]
       /\ handles = c.handles
       /\ destroyed = FALSE
       /\ epoch = [init |-> FALSE, t |-> 0]

Init == InitOf(Scenarios, FALSE)

InitLogged == InitOf(LoggedRuns, TRUE)

InitProcess == InitOf(ProcessRuns, FALSE)

InitData == InitOf(PoseRuns, FALSE)

\* ------------------------------------------------------------ operations
\* RawDepthReader::readNextDepthFrame(uchar3*, unsigned short int*) from the
\* current state: fseeko on a null FILE* kills the process
RawDepthRead(raw_rgb, depthMap, uninit) ==
  LET g == get_next_frame(_fps, _blocking_read, _frame, clock, first_frame)
      r == RawReadRecord(env.data.bytes, _inSize, g.frame, _rawFilePtr.pos,
                         raw_rgb, depthMap, uninit)
  IN IF _rawFilePtr.null
     THEN [crash |-> TRUE, res |-> FALSE, frame |-> g.frame, clock |-> g.clock,
           first |-> g.first, slept |-> g.slept, pos |-> _rawFilePtr.pos,
           depth |-> << >>, rgb |-> << >>, report |-> "none", transferred |-> 0]
     ELSE [crash |-> FALSE, res |-> r.res, frame |-> g.frame, clock |-> g.clock,
           first |-> g.first, slept |-> g.slept, pos |-> r.pos,
           depth |-> r.depth, rgb |-> r.rgb, report |-> r.report,
           transferred |-> r.transferred]

\* the entry a depth read adds to the log of the first run
RunEntry(raw_rgb, depthMap, d) ==
  [raw_rgb |-> raw_rgb, depthMap |-> depthMap, res |-> d.res, depth |-> d.depth, rgb |-> d.rgb]

Logged(entry) ==
  IF ~log.on THEN log
  ELSE [log EXCEPT !.reads = @ + 1,
                   !.firstRun = IF log.restarted THEN @ ELSE Append(@, entry),
                   !.burst = @ + 1,
                   !.start = IF log.burst = 0 THEN clock ELSE @]

\* the model follows a read while the frame index and the clock are in bounds
ReadInBounds == _frame < MaxFrame /\ clock <= MaxTime /\ log.reads < MaxReads

\* the state change of a depth read d: the seek and the reads that follow
\* the pacer take one tick
ApplyDepthRead(raw_rgb, depthMap, d) ==
  /\ _frame' = d.frame
  /\ clock' = d.clock + 1
  /\ first_frame' = d.first
  /\ epoch' = IF _fps > 0 /\ ~epoch.init THEN [init |-> TRUE, t |-> clock] ELSE epoch
  /\ _rawFilePtr' = [_rawFilePtr EXCEPT !.pos = d.pos]
  /\ alive' = ~d.crash
  /\ log' = Logged(RunEntry(raw_rgb, depthMap, d))

DepthCall(op, raw_rgb, depthMap, d) ==
  [NoCall EXCEPT !.op = op, !.res = d.res, !.raw_rgb = raw_rgb, !.depthMap = depthMap,
                 !.depth = d.depth, !.rgb = d.rgb, !.slept = d.slept,
                 !.report = d.report, !.transferred = d.transferred]

RawReadNextDepthFrame ==
  /\ alive /\ ~destroyed
  /\ config.type = "raw"
  /\ ReadInBounds
  /\ \E raw_rgb \in BOOLEAN, depthMap \in BOOLEAN, uninit \in UninitialisedDims :
       LET d == RawDepthRead(raw_rgb, depthMap, uninit)
       IN /\ ApplyDepthRead(raw_rgb, depthMap, d)
          /\ last' = [DepthCall("readNextDepthFrame", raw_rgb, depthMap, d)
                        EXCEPT !.calls = << [name |-> "readNextDepthFrame", res |-> d.res] >>]
  /\ UNCHANGED << config, env, cameraOpen, cameraActive, _pose_num, _fps, _blocking_read,
                  _inSize, _gt_file, ctor, handles, destroyed >>

\* SceneDepthReader::readNextDepthFrame(uchar3*, unsigned short int*) with a
\* depth buffer: the frame file scene_00_<_frame>.depth is opened, and a file
\* that opens always gives index > 0
SceneReadNextDepthFrame ==
  /\ alive /\ ~destroyed
  /\ config.type = "scene"
  /\ ReadInBounds
  /\ LET g == get_next_frame(_fps, _blocking_read, _frame, clock, first_frame)
         found == env.dir.exists /\ g.frame >= 0 /\ g.frame < env.dir.frames
         d == [crash |-> FALSE, res |-> found, frame |-> g.frame, clock |-> g.clock,
               first |-> g.first, slept |-> g.slept, pos |-> _rawFilePtr.pos,
               depth |-> << >>, rgb |-> << >>, report |-> "none", transferred |-> 0]
     IN /\ ApplyDepthRead(FALSE, TRUE, d)
        /\ last' = [DepthCall("readNextDepthFrame", FALSE, TRUE, d)
                      EXCEPT !.calls = << [name |-> "readNextDepthFrame", res |-> d.res] >>,
                             !.file = IF found THEN g.frame ELSE -1]
  /\ UNCHANGED << config, env, cameraOpen, cameraActive, _pose_num, _fps, _blocking_read,
                  _inSize, _gt_file, ctor, handles, destroyed >>

\* a pose read that counts the frame index along with the pose index
ReadNextPoseCountsFrame ==
  /\ alive /\ ~destroyed
  /\ LET p == readNextPose(env.gt, _gt_file, config.transform, 0)
     IN /\ _gt_file' = p.st
        /\ _pose_num' = _pose_num + p.inc
        /\ _frame' = _frame + p.inc
        /\ last' = [NoCall EXCEPT !.op = "readNextPose", !.res = p.res, !.threw = p.threw,
                                  !.pose = p.pose,
                                  !.calls = << [name |-> "readNextPose", res |-> p.res] >>]
  /\ UNCHANGED << config, env, cameraOpen, cameraActive, _fps, _blocking_read,
                  _rawFilePtr, _inSize, clock, first_frame, epoch, alive, ctor, handles,
                  destroyed, log >>

\* DepthReader::readNextPose called on its own
ReadNextPose ==
  /\ alive /\ ~destroyed
  /\ LET p == readNextPose(env.gt, _gt_file, config.transform, 0)
     IN /\ _gt_file' = p.st
        /\ _pose_num' = _pose_num + p.inc
        /\ last' = [NoCall EXCEPT !.op = "readNextPose", !.res = p.res, !.threw = p.threw,
                                  !.pose = p.pose,
                                  !.calls = << [name |-> "readNextPose", res |-> p.res] >>]
  /\ UNCHANGED << config, env, cameraOpen, cameraActive, _frame, _fps, _blocking_read,
                  _rawFilePtr, _inSize, clock, first_frame, epoch, alive, ctor, handles,
                  destroyed, log >>

\* a readNextData that reads the depth frame whatever the pose read returned
RawReadNextDataAlwaysReadsDepth ==
  /\ alive /\ ~destroyed
  /\ config.type = "raw"
  /\ ReadInBounds
  /\ \E raw_rgb \in BOOLEAN, depthMap \in BOOLEAN, uninit \in UninitialisedDims :
       LET p == readNextPose(env.gt, _gt_file, config.transform, 0)
           d == RawDepthRead(raw_rgb, depthMap, uninit)
       IN /\ _gt_file' = p.st
          /\ _pose_num' = _pose_num + p.inc
          /\ ApplyDepthRead(raw_rgb, depthMap, d)
          /\ last' = [DepthCall("readNextData", raw_rgb, depthMap, d)
                        EXCEPT !.res = p.res /\ d.res, !.threw = p.threw, !.pose = p.pose,
                               !.calls = << [name |-> "readNextPose", res |-> p.res],
                                            [name |-> "readNextDepthFrame", res |-> d.res] >>]
  /\ UNCHANGED << config, env, cameraOpen, cameraActive, _fps, _blocking_read, _inSize,
                  ctor, handles, destroyed >>

\* RawDepthReader::readNextData: res = readNextPose(pose);
\* res = res && readNextDepthFrame(rgb_image, depth_image)
RawReadNextData ==
  /\ alive /\ ~destroyed
  /\ config.type = "raw"
  /\ ReadInBounds
  /\ \E raw_rgb \in BOOLEAN, depthMap \in BOOLEAN, uninit \in UninitialisedDims :
       LET p == readNextPose(env.gt, _gt_file, config.transform, 0)
           d == RawDepthRead(raw_rgb, depthMap, uninit)
       IN /\ _gt_file' = p.st
          /\ _pose_num' = _pose_num + p.inc
          /\ IF p.res
             THEN /\ ApplyDepthRead(raw_rgb, depthMap, d)
                  /\ last' = [DepthCall("readNextData", raw_rgb, depthMap, d)
                                EXCEPT !.pose = p.pose,
                                       !.calls = << [name |-> "readNextPose", res |-> TRUE],
                                                    [name |-> "readNextDepthFrame", res |-> d.res] >>]
             ELSE /\ UNCHANGED << _frame, clock, first_frame, epoch, _rawFilePtr, alive, log >>
                  /\ last' = [NoCall EXCEPT !.op = "readNextData", !.threw = p.threw,
                                            !.calls = << [name |-> "readNextPose", res |-> FALSE] >>]
  /\ UNCHANGED << config, env, cameraOpen, cameraActive, _fps, _blocking_read, _inSize,
                  ctor, handles, destroyed >>

\* DepthReader::readNextData, which SceneDepthReader inherits
BaseReadNextData ==
  /\ alive /\ ~destroyed
  /\ config.type = "scene"
  /\ last' = [NoCall EXCEPT !.op = "readNextData"]
  /\ UNCHANGED << config, env, readerVars, clock, first_frame, epoch, alive, ctor, handles,
                  destroyed, log >>

\* a restart that rewinds both files and leaves the frame index
RawRestartKeepsFrame ==
  /\ alive /\ ~destroyed
  /\ config.type = "raw"
  /\ _pose_num' = -1
  /\ alive' = ~_rawFilePtr.null
  /\ _rawFilePtr' = IF _rawFilePtr.null THEN _rawFilePtr ELSE [_rawFilePtr EXCEPT !.pos = 0]
  /\ _gt_file' = IF ~_rawFilePtr.null /\ _gt_file.open THEN Seekg0(_gt_file) ELSE _gt_file
  /\ last' = [NoCall EXCEPT !.op = "restart"]
  /\ log' = IF log.on THEN [log EXCEPT !.restarted = TRUE, !.reads = 0] ELSE log
  /\ UNCHANGED << config, env, cameraOpen, cameraActive, _frame, _fps, _blocking_read,
                  _inSize, clock, first_frame, epoch, ctor, handles, destroyed >>

\* RawDepthReader::restart: rewind on a null FILE* kills the process
RawRestart ==
  /\ alive /\ ~destroyed
  /\ config.type = "raw"
  /\ _frame' = -1
  /\ _pose_num' = -1
  /\ alive' = ~_rawFilePtr.null
  /\ _rawFilePtr' = IF _rawFilePtr.null THEN _rawFilePtr ELSE [_rawFilePtr EXCEPT !.pos = 0]
  /\ _gt_file' = IF ~_rawFilePtr.null /\ _gt_file.open THEN Seekg0(_gt_file) ELSE _gt_file
  /\ last' = [NoCall EXCEPT !.op = "restart"]
  /\ log' = IF log.on THEN [log EXCEPT !.restarted = TRUE, !.reads = 0] ELSE log
  /\ UNCHANGED << config, env, cameraOpen, cameraActive, _fps, _blocking_read, _inSize,
                  clock, first_frame, epoch, ctor, handles, destroyed >>

\* SceneDepthReader::restart
SceneRestart ==
  /\ alive /\ ~destroyed
  /\ config.type = "scene"
  /\ _frame' = 0
  /\ last' = [NoCall EXCEPT !.op = "restart"]
  /\ log' = IF log.on THEN [log EXCEPT !.restarted = TRUE, !.reads = 0] ELSE log
  /\ UNCHANGED << config, env, cameraOpen, cameraActive, _pose_num, _fps, _blocking_read,
                  _rawFilePtr, _inSize, _gt_file, clock, first_frame, epoch, alive, ctor,
                  handles, destroyed >>

\* the caller spends one clock tick outside the reader
Tick ==
  /\ alive /\ ~destroyed
  /\ clock < MaxTime
  /\ clock' = clock + 1
  /\ log' = IF log.on THEN [log EXCEPT !.burst = 0, !.start = 0] ELSE log
  /\ UNCHANGED << config, env, readerVars, first_frame, epoch, alive, ctor, handles,
                  destroyed, last >>

Next ==
  \/ RawReadNextDepthFrame
  \/ SceneReadNextDepthFrame
  \/ ReadNextPose
  \/ RawReadNextData
  \/ BaseReadNextData
  \/ RawRestart
  \/ SceneRestart
  \/ Tick

Spec == Init /\ [][Next]_vars

\* a RawDepthReader whose first reads are logged
NextLogged ==
  \/ RawReadNextDepthFrame
  \/ RawRestart
  \/ Tick

SpecLogged == InitLogged /\ [][NextLogged]_vars

\* readNextDepthFrame of another reader of the process, paced at FpsPaced:
\* its get_next_frame works on the same function-local static first_frame
OtherReaderRead ==
  /\ alive /\ ~destroyed
  /\ clock <= MaxTime
  /\ \E blocking \in BOOLEAN :
       LET g == get_next_frame(FpsPaced, blocking, 0, clock, first_frame)
       IN /\ first_frame' = g.first
          /\ clock' = g.clock + 1
  /\ UNCHANGED << config, env, readerVars, epoch, alive, ctor, handles, destroyed, last, log >>

\* the destruction of a RawDepthReader: the class declares no destructor
\* and ~DepthReader() is empty, so only the members' destructors run;
\* std::ifstream closes its file, the FILE* member is a plain pointer
Destroy ==
  /\ alive /\ ~destroyed
  /\ config.type = "raw"
  /\ destroyed' = TRUE
  /\ handles' = handles \ { "gt" }
  /\ last' = [NoCall EXCEPT !.op = "destroy"]
  /\ UNCHANGED << config, env, readerVars, clock, first_frame, epoch, alive, ctor, log >>

\* a RawDepthReader beside another reader, up to its destruction
NextProcess ==
  \/ RawReadNextDepthFrame
  \/ ReadNextPose
  \/ RawRestart
  \/ Tick
  \/ OtherReaderRead
  \/ Destroy

SpecProcess == InitProcess /\ [][NextProcess]_vars

\* a RawDepthReader with a ground-truth file driven through readNextData
\* and restart alone
NextData ==
  \/ RawReadNextData
  \/ RawRestart

SpecData == InitData /\ [][NextData]_vars

\* ---------------------------------------------------------------- claims
IsRaw == config.type = "raw"

\* C1: restart() followed by N reads delivers the same data and the same
\* results as the first N reads after construction, under every pacing:
\* the k-th read after a restart, made with the pointers of the k-th read
\* after construction, gives what that read gave.
C1_RestartReproducesFirstReads ==
  (/\ log.on
   /\ log.restarted
   /\ last.op = "readNextDepthFrame"
   /\ log.reads \in 1..Len(log.firstRun)
   /\ log.firstRun[log.reads].raw_rgb = last.raw_rgb
   /\ log.firstRun[log.reads].depthMap = last.depthMap)
  => /\ last.res = log.firstRun[log.reads].res
     /\ last.depth = log.firstRun[log.reads].depth
     /\ last.rgb = log.firstRun[log.reads].rgb

\* C2: a RawDepthReader whose construction failed has returned from its
\* constructor without a crash with cameraOpen and cameraActive false, and
\* every read on it returns false and leaves the frame index, the pose index
\* and both file cursors as they were.
C2_FailedConstructionIsInert ==
  /\ []((IsRaw /\ ctor # "ok") => (alive /\ ~cameraOpen /\ ~cameraActive))
  /\ [][(IsRaw /\ ctor # "ok" /\ (RawReadNextDepthFrame \/ ReadNextPose \/ RawReadNextData))
          => (/\ alive'
              /\ ~last'.res
              /\ ~last'.threw
              /\ _frame' = _frame
              /\ _pose_num' = _pose_num
              /\ _rawFilePtr' = _rawFilePtr
              /\ _gt_file'.pos = _gt_file.pos)]_vars

\* the record with index i is not wholly inside the file
RecordCutShort(i) == Len(env.data.bytes) < (i + 1) * RecordSize

\* C3: when the file ends before the end of the record being read,
\* readNextDepthFrame returns false, whichever output pointers are null.
C3_TruncatedRecordFails ==
  (IsRaw /\ ctor = "ok" /\ last.op = "readNextDepthFrame" /\ RecordCutShort(_frame))
  => ~last.res

\* C4: a read that returns true delivered the depth and colour samples of
\* the record at byte offset record_size * getFrameNumber(), record_size
\* coming from the header resolution alone; unpaced, the k-th read after
\* construction or restart is at record k - 1.
C4_ReadDeliversRecordAtFrameOffset ==
  (IsRaw /\ last.op = "readNextDepthFrame" /\ last.res)
  => LET bytes == env.data.bytes
         n == U32At(bytes, 0) * U32At(bytes, 4)
         record_size == 4 * SizeofUInt + n * SizeofUShort + n * SizeofUchar3
         off == record_size * _frame
         depthAt == off + 2 * SizeofUInt
         rgbAt == depthAt + n * SizeofUShort + 2 * SizeofUInt
     IN /\ last.depthMap
             => /\ depthAt + n * SizeofUShort <= Len(bytes)
                /\ last.depth = SubSeq(bytes, depthAt + 1, depthAt + n * SizeofUShort)
        /\ last.raw_rgb
             => /\ rgbAt + n * SizeofUchar3 <= Len(bytes)
                /\ last.rgb = SubSeq(bytes, rgbAt + 1, rgbAt + n * SizeofUchar3)
        /\ (log.on /\ _fps = 0) => _frame = log.reads - 1

C4_Witness ==
  /\ IsRaw /\ log.on /\ log.restarted
  /\ last.op = "readNextDepthFrame" /\ last.res /\ last.raw_rgb /\ last.depthMap
  /\ _fps = 0 /\ _frame = 1 /\ log.reads = 2

\* C5: on a constructed RawDepthReader with fps = 0 the frame index is -1
\* before the first read, and every readNextDepthFrame call adds exactly 1
\* to it without sleeping, whatever it returns and whichever pointers are
\* null.
C5_UnpacedReadAddsOne ==
  /\ ((IsRaw /\ ctor = "ok" /\ _fps = 0) => _frame = -1)
  /\ [][(IsRaw /\ ctor = "ok" /\ _fps = 0 /\ RawReadNextDepthFrame)
          => (_frame' = _frame + 1 /\ last'.slept = 0)]_vars

C5_Witness ==
  /\ IsRaw /\ ctor = "ok" /\ _fps = 0 /\ clock > 0
  /\ last.op = "readNextDepthFrame" /\ ~last.res /\ ~last.raw_rgb /\ ~last.depthMap
  /\ _frame = MaxFrame

\* C6: the frame index of a constructed reader never decreases in a step
\* that is not a restart, paced or not.
C6_FrameIndexMonotonic ==
  [][(ctor = "ok" /\ ~(RawRestart \/ SceneRestart)) => _frame' >= _frame]_vars

C6_Witness ==
  /\ ctor = "ok" /\ _fps = FpsPaced /\ ~_blocking_read
  /\ last.op = "readNextDepthFrame" /\ _frame = 2

\* C7: restart() of RawDepthReader and of SceneDepthReader leaves the frame
\* index at -1, its value after construction.
C7_RestartSetsSentinel ==
  (last.op = "restart") => _frame = -1

\* the constructor has returned
Constructed == ctor # "null_file"

C9_ReadNextDataIsConjunction ==
  (IsRaw /\ last.op = "readNextData")
  => /\ ~last.threw
     /\ Len(last.calls) >= 1
     /\ last.calls[1].name = "readNextPose"
     /\ \A i \in 2..Len(last.calls) : last.calls[i].name = "readNextDepthFrame"
     /\ last.res = (Len(last.calls) = 2 /\ last.calls[1].res /\ last.calls[2].res)

\* the number of space-separated fields of a line
RECURSIVE FieldCount(_, _)
FieldCount(line, i) ==
  IF i > Len(line) THEN 0
  ELSE (IF line[i] # Sp /\ (i = 1 \/ line[i - 1] = Sp) THEN 1 ELSE 0) + FieldCount(line, i + 1)

\* the number of the first line after the first pos lines that is not a
\* comment, 0 when there is none
RECURSIVE FirstDataLine(_, _)
FirstDataLine(lines, pos) ==
  IF pos >= Len(lines) THEN 0
  ELSE IF Len(lines[pos + 1]) > 0 /\ lines[pos + 1][1] = "#" THEN FirstDataLine(lines, pos + 1)
  ELSE pos + 1

\* C10: readNextPose is decided by the first non-comment line at or after
\* the cursor: with at least 7 fields it returns true and adds 1 to the pose
\* index; with fewer it returns false, leaves the pose index and reads no
\* further line.
C10_FirstDataLineDecides ==
  [][(/\ ReadNextPose
      /\ _gt_file.open
      /\ Good(_gt_file)
      /\ FirstDataLine(env.gt.lines, _gt_file.pos) # 0)
       => LET k == FirstDataLine(env.gt.lines, _gt_file.pos)
          IN IF FieldCount(env.gt.lines[k], 1) >= 7
             THEN last'.res /\ ~last'.threw /\ _pose_num' = _pose_num + 1
             ELSE ~last'.res /\ ~last'.threw /\ _pose_num' = _pose_num /\ _gt_file'.pos = k]_vars

\* the positions at which the space-separated fields of a line start
FieldStarts(line) ==
  { i \in 1..Len(line) : line[i] # Sp /\ (i = 1 \/ line[i - 1] = Sp) }

\* one of the last seven fields of the line does not start a number
TrailingFieldUnparseable(line) ==
  \E i \in FieldStarts(line) :
    /\ line[i] \notin Digits
    /\ Cardinality({ j \in FieldStarts(line) : j >= i }) <= 7

\* C11: when the line readNextPose decides on has at least 7 fields and one
\* of its last seven does not parse as a number, readNextPose and
\* readNextData return false as an ordinary result, no exception leaves the
\* call, and the pose index is unchanged.
C11_UnparseableColumnReturnsFalse ==
  [][(/\ (ReadNextPose \/ RawReadNextData)
      /\ _gt_file.open
      /\ Good(_gt_file)
      /\ FirstDataLine(env.gt.lines, _gt_file.pos) # 0
      /\ LET line == env.gt.lines[FirstDataLine(env.gt.lines, _gt_file.pos)]
         IN FieldCount(line, 1) >= 7 /\ TrailingFieldUnparseable(line))
       => (~last'.threw /\ ~last'.res /\ _pose_num' = _pose_num)]_vars

\* what readNextPose delivers on the ground-truth stream as the constructor
\* opened it
FirstPoseRead ==
  readNextPose(env.gt, [open |-> TRUE, pos |-> 0, eofbit |-> FALSE, failbit |-> FALSE],
               config.transform, 0)

\* C12: after restart() on a RawDepthReader constructed with a ground-truth
\* file the pose index is -1 and the next readNextPose returns the first
\* record of the file again, whatever pose reads came before the restart,
\* those that failed at the end of the file included.
C12_RestartRewindsPoses ==
  /\ []((IsRaw /\ ctor = "ok" /\ _gt_file.open /\ last.op = "restart") => _pose_num = -1)
  /\ [][(/\ IsRaw /\ ctor = "ok" /\ _gt_file.open
         /\ last.op = "restart"
         /\ FirstPoseRead.res
         /\ ReadNextPose)
          => (last'.res /\ last'.pose = FirstPoseRead.pose /\ _pose_num' = 0)]_vars

\* C13: a RawDepthReader read that fails reports the end of the file when
\* no element of the record was transferred and garbage when some were, two
\* different reports, whichever output pointers are null.
C13_ReportTellsEndOfFileFromGarbage ==
  (IsRaw /\ ctor = "ok" /\ last.op = "readNextDepthFrame" /\ ~last.res)
  => /\ last.report \in { "End of file.", "End of file(garbage found)." }
     /\ (last.report = "End of file.") <=> (last.transferred = 0)

\* C14: the record a read was made on, read with the other choice of the
\* colour pointer, gives the same result and the same depth samples: a null
\* colour pointer changes neither.
C14_NullColourSameDepth ==
  (IsRaw /\ ctor = "ok" /\ last.op = "readNextDepthFrame" /\ last.depthMap)
  => \A uninit \in UninitialisedDims :
       LET other == RawReadRecord(env.data.bytes, _inSize, _frame, _rawFilePtr.pos,
                                  ~last.raw_rgb, TRUE, uninit)
       IN other.res = last.res /\ other.depth = last.depth

\* C15: restart() on a RawDepthReader returns without killing the process
\* whenever it is called after the constructor returned: before any read,
\* after a failed read, and on an instance whose construction failed.
C15_RestartIsSafe ==
  (IsRaw /\ Constructed /\ last.op = "restart") => alive

\* C16: once a RawDepthReader is destroyed no file its constructor opened
\* is still open, neither the data file nor the ground-truth file, on every
\* constructor exit that returned.
C16_DestructionClosesFiles ==
  (IsRaw /\ Constructed /\ destroyed) => handles = { }

\* C17: with fps = F > 0 and blocking_read true, N reads made with no time
\* spent by the caller between them take at least (N - 1) / F seconds from
\* the start of the first to the return of the last.
C17_BlockingReadsTakeFramePeriods ==
  (/\ log.on /\ IsRaw /\ ctor = "ok"
   /\ _fps > 0 /\ _blocking_read
   /\ last.op = "readNextDepthFrame"
   /\ log.burst >= 1)
  => (clock - log.start) * _fps >= (log.burst - 1) * TicksPerSec

C17_Witness ==
  /\ log.on /\ IsRaw /\ ctor = "ok"
  /\ _fps > 0 /\ _blocking_read
  /\ last.op = "readNextDepthFrame" /\ last.slept > 0
  /\ log.burst = 3

\* C18: another reader of the process does not influence this one: every
\* paced read gives the frame index that follows from the reader's own
\* frame rate, the time of its own first paced read and the time of the
\* call, the index it gives when no other reader has read.
C18_ReadersAreIndependent ==
  [][(IsRaw /\ ctor = "ok" /\ _fps > 0 /\ RawReadNextDepthFrame)
       => _frame' = get_next_frame(_fps, _blocking_read, _frame, clock, epoch).frame]_vars

\* C19: every read of a RawDepthReader writes at most width * height depth
\* samples and at most width * height colour samples, (width, height) being
\* what getinputSize() returns, also on a record whose own dimension pair
\* differs from the header.
C19_ReadStaysInsideBuffers ==
  (IsRaw /\ ctor = "ok" /\ last.op \in { "readNextDepthFrame", "readNextData" })
  => /\ Len(last.depth) <= _inSize[1] * _inSize[2] * SizeofUShort
     /\ Len(last.rgb) <= _inSize[1] * _inSize[2] * SizeofUchar3

\* C20: a RawDepthReader stays usable after a failed read: the first read
\* after a restart(), made with fps = 0 on a file whose record 0 is whole,
\* returns true on an open reader and delivers record 0, whatever reads
\* came before the restart, failed ones included.
C20_UsableAfterFailedRead ==
  (/\ log.on /\ IsRaw /\ ctor = "ok" /\ _fps = 0
   /\ log.restarted /\ log.reads = 1
   /\ last.op = "readNextDepthFrame"
   /\ ~RecordCutShort(0))
  => /\ alive /\ cameraOpen
     /\ _frame = 0
     /\ last.res
     /\ last.depthMap
          => last.depth = SubSeq(env.data.bytes, 2 * SizeofUInt + 1,
                                 2 * SizeofUInt + Width * Height * SizeofUShort)
     /\ last.raw_rgb
          => last.rgb = SubSeq(env.data.bytes, RecordSize - Width * Height * SizeofUchar3 + 1,
                               RecordSize)

\* the read before the restart failed at the end of a one-record file
C20_Witness ==
  /\ log.on /\ IsRaw /\ ctor = "ok" /\ _fps = 0
  /\ log.restarted /\ log.reads = 1
  /\ Len(env.data.bytes) = RecordSize
  /\ Len(log.firstRun) = 2 /\ log.firstRun[1].res /\ ~log.firstRun[2].res
  /\ last.op = "readNextDepthFrame" /\ last.res /\ last.raw_rgb /\ last.depthMap
  /\ _frame = 0

\* C21: with a single reader and fps = F > 0, every read leaves the frame
\* index at ceil(elapsed * F), elapsed being the time from the reader's own
\* first paced read to the clock reading of this one; the first read gives
\* index 0, and the blocking_read flag does not enter.
C21_FrameIsCeilOfElapsed ==
  [][(/\ ctor = "ok" /\ _fps > 0
      /\ (RawReadNextDepthFrame \/ SceneReadNextDepthFrame))
       => /\ epoch'.init
          /\ _frame' = CeilDiv((clock - epoch'.t) * _fps, TicksPerSec)
          /\ ~epoch.init => _frame' = 0]_vars

C21_Witness ==
  /\ ctor = "ok" /\ _fps = FpsPaced /\ _blocking_read
  /\ epoch.init /\ epoch.t > 0
  /\ last.op = "readNextDepthFrame" /\ last.slept > 0
  /\ _frame = 1

\* C22: with fps = F > 0 and blocking_read true, reads made with no time
\* spent by the caller between them visit consecutive frame indices: the
\* reader's first read gives 0 and each read that follows a read at once
\* gives the index after the one before, none skipped, none repeated.
C22_BlockingReadsVisitEveryFrame ==
  [][(/\ log.on /\ IsRaw /\ ctor = "ok"
      /\ _fps > 0 /\ _blocking_read
      /\ RawReadNextDepthFrame)
       => /\ ~epoch.init => _frame' = 0
          /\ (log.burst >= 1 /\ last.op = "readNextDepthFrame") => _frame' = _frame + 1]_vars

C22_Witness ==
  /\ log.on /\ IsRaw /\ ctor = "ok"
  /\ _fps > 0 /\ _blocking_read
  /\ ~log.restarted /\ log.reads = 3 /\ log.burst = 3 /\ log.start = epoch.t
  /\ last.op = "readNextDepthFrame"
  /\ _frame = 2

\* C23: the pose index and the frame index advance independently:
\* readNextPose leaves the frame index and the cursor of the data file,
\* readNextDepthFrame leaves the pose index and the ground-truth stream.
\* The step of a call is the step after which it is the last call.
C23_PoseAndFrameAreIndependent ==
  [][/\ last'.op = "readNextPose" => (_frame' = _frame /\ _rawFilePtr' = _rawFilePtr)
     /\ last'.op = "readNextDepthFrame" => (_pose_num' = _pose_num /\ _gt_file' = _gt_file)]_vars

C23_Witness ==
  /\ IsRaw /\ ctor = "ok" /\ _gt_file.open
  /\ last.op = "readNextPose" /\ last.res
  /\ _pose_num = 0 /\ _gt_file.pos > 0
  /\ _frame = 1 /\ _rawFilePtr.pos > RecordSize

\* every line of the ground-truth file is a comment or a record of at least
\* 7 fields whose last seven are numbers
WellFormedGt ==
  \A i \in 1..Len(env.gt.lines) :
    LET line == env.gt.lines[i]
    IN \/ (Len(line) > 0 /\ line[1] = "#")
       \/ (FieldCount(line, 1) >= 7 /\ ~TrailingFieldUnparseable(line))

\* C24: on a well-formed ground-truth file each readNextPose call returns
\* the next record after the cursor, in file order and one per call, and
\* returns false only when no record is left; a last record without a final
\* newline is returned like the others.
C24_EveryRecordIsReturned ==
  [][(/\ ReadNextPose
      /\ _gt_file.open
      /\ Good(_gt_file)
      /\ WellFormedGt)
       => LET k == FirstDataLine(env.gt.lines, _gt_file.pos)
          IN IF k = 0
             THEN ~last'.res /\ _pose_num' = _pose_num
             ELSE /\ last'.res
                  /\ last'.pose = PoseOf(splitString(env.gt.lines[k], Sp), config.transform)
                  /\ _gt_file'.pos = k
                  /\ _pose_num' = _pose_num + 1]_vars

\* C25: with fps = F > 0 and blocking_read true the sleep of one read is
\* never negative and is shorter than one frame period 1 / F: it is the time
\* left to the due time of the frame when that is positive, and there is no
\* sleep when it is not.
C25_SleepIsShorterThanFramePeriod ==
  [][(/\ ctor = "ok" /\ _fps > 0 /\ _blocking_read
      /\ (RawReadNextDepthFrame \/ SceneReadNextDepthFrame))
       => LET left == _frame' * TicksPerSec - (clock - first_frame'.t) * _fps
          IN /\ last'.slept >= 0
             /\ last'.slept * _fps < TicksPerSec
             /\ left > 0 => last'.slept * _fps = left
             /\ left <= 0 => last'.slept = 0
             /\ clock' = clock + last'.slept + 1]_vars

C25_Witness ==
  /\ ctor = "ok" /\ _fps = FpsPaced /\ _blocking_read
  /\ last.op = "readNextDepthFrame"
  /\ last.slept = TicksPerFrame - 1
  /\ _frame = 2

\* C26: on a constructed RawDepthReader with a ground-truth file and
\* fps = 0, driven by readNextData and restart alone, the frame index equals
\* the pose index after every operation: a call whose pose read fails makes
\* no depth read and advances neither, a call whose pose read succeeds
\* advances both by one, also when its depth read fails.
C26_FrameIndexEqualsPoseIndex ==
  /\ []((IsRaw /\ ctor = "ok" /\ _gt_file.open /\ _fps = 0) => _frame = _pose_num)
  /\ [][(IsRaw /\ ctor = "ok" /\ _gt_file.open /\ _fps = 0 /\ RawReadNextData)
          => IF last'.calls[1].res
             THEN /\ Len(last'.calls) = 2
                  /\ _frame' = _frame + 1 /\ _pose_num' = _pose_num + 1
             ELSE /\ Len(last'.calls) = 1
                  /\ _frame' = _frame /\ _pose_num' = _pose_num]_vars

C26_Witness ==
  /\ IsRaw /\ ctor = "ok" /\ _gt_file.open /\ _fps = 0
  /\ last.op = "readNextData"
  /\ Len(last.calls) = 2 /\ last.calls[1].res /\ ~last.calls[2].res
  /\ _frame = 1 /\ _pose_num = 1

====
